---- MODULE Spec2Model ----
(***************************************************************************)
(* PowerSight accuracy scoring engine: the shared Pyodide sandbox          *)
(* (services/formulas.ts), the formula editor's debounced preview          *)
(* (components/FormulaEditor.tsx) and the calculation run of App.tsx.      *)
(*                                                                         *)
(* Three specifications:                                                   *)
(*   Spec        the application: sandbox initialisation, preview          *)
(*               requests and calculation runs, interleaved at every       *)
(*               await of the code;                                        *)
(*   WideSpec    the same application with one more sandbox instance and   *)
(*               one more preview execution, for the interleavings that    *)
(*               need two of them;                                         *)
(*   ScriptSpec  the two generated Python scripts (preview loop and        *)
(*               _calculate_batch) applied to bounded row formulas and     *)
(*               sample rows.                                              *)
(***************************************************************************)
EXTENDS Integers, Sequences, FiniteSets, TLC

VARIABLES
    \* --- services/formulas.ts: the sandbox
    hostLoaded,       \* typeof window.loadPyodide === 'function'
    pyodideInstance,  \* let pyodideInstance (0 is null)
    created,          \* number of instances loadPyodide has resolved to
    pkg,              \* per instance: state of loadPackage("numpy")
    init,             \* per caller: where its pending initPyodide call stands
    globals,          \* per instance: who bound each name of py.globals
    \* --- App.tsx
    data,             \* rawRows and dateRange
    step,             \* wizard step
    customFormula,    \* the script to execute
    isCalculating,
    results,
    alert,            \* the last alert() shown
    run,              \* the calculation run: position, closure, dailyResults
    \* --- components/FormulaEditor.tsx
    rowLogic,
    timer,            \* the pending setTimeout of the preview effect
    started,          \* number of preview executions started so far
    pv,               \* per preview execution: position, closure, outcome
    previewResults,
    previewError,
    isRunning,
    \* --- observations of completed calls
    callLog,          \* executeCustomFormula calls and completions of the run
    batchLeft,        \* names left in py.globals when executeCustomFormula completed
    previewLeft,      \* names left in py.globals when runRowPreview completed
    applied,          \* the preview execution whose outcome was applied last
    previewOut,       \* how the runRowPreview call that completed last ended
    wide,             \* which bounds the specification runs with
    \* --- ScriptSpec
    sc                \* formula, rows and the script's output

sandboxVars == <<hostLoaded, pyodideInstance, created, pkg, init, globals>>
appVars == <<data, step, customFormula, isCalculating, results, alert, run>>
editorVars == <<rowLogic, timer, started, pv, previewResults, previewError, isRunning>>
obsVars == <<callLog, batchLeft, previewLeft, applied, previewOut>>
vars == <<sandboxVars, appVars, editorVars, obsVars, wide, sc>>

\* ------------------------------------------------------------------ bounds

\* instances loadPyodide may resolve to
MaxInst == 1
\* preview executions the editor may start
MaxPreviews == 1
\* The specifications that look for interleavings of several instances and
\* several previews run with one more of each.
InstBudget == IF wide THEN MaxInst + 1 ELSE MaxInst
PreviewBudget == IF wide THEN MaxPreviews + 1 ELSE MaxPreviews
\* statements of a row formula, rows of a sample (ScriptSpec)
MaxStmts == 2
MaxRows == 3
\* samples of a day (FormulaSpec)
MaxDayRows == 2
MaxLines == 3

\* ------------------------------------------------------- Python row formulas

\* A Python value of the model: an int, None, or no binding at all.
Unbound == [k |-> "unbound", n |-> 0]
PyNone == [k |-> "none", n |-> 0]
PyNum(n) == [k |-> "num", n |-> n]

\* A row formula is either text that does not compile or a list of statements
\*     [if real > fore:] <var> = <expr>
\* over the context names real and fore, with the expressions
\*     quot  fore // real      (ZeroDivisionError when real is 0)
\*     tmp   tmp                (NameError / UnboundLocalError when unbound)
\*     real  real
\*     sq    (real - fore) ** 2
\*     cube  (diff ** 2) * abs(diff), diff = real - fore
\*     diff  real - fore
Conds == {"always", "realGtFore"}
Vars == {"result", "tmp"}
Exprs == {"quot", "tmp", "real", "sq", "cube", "diff"}
Stmt(c, v, e) == [cond |-> c, var |-> v, expr |-> e]
Logic(body) == [compiles |-> TRUE, body |-> body]
SyntaxErrorLogic == [compiles |-> FALSE, body |-> <<>>]
\* `rowLogic` of useState(''): the empty text
EmptyLogic == Logic(<<>>)

Abs(x) == IF x < 0 THEN -x ELSE x

\* ROW_TEMPLATES
ShanxiTemplate == Logic(<<Stmt("always", "result", "cube")>>)
GeneralTemplate == Logic(<<Stmt("always", "result", "sq")>>)

\* Evaluation of one right-hand side; fallback is the binding of tmp in the
\* enclosing (global) scope when the statement runs inside a function.
EvalExpr(e, row, env, fallback) ==
    CASE e = "quot" -> IF row.real = 0 THEN Unbound ELSE PyNum(row.fore \div row.real)
      [] e = "tmp" -> IF env.tmp.k # "unbound" THEN env.tmp ELSE fallback
      [] e = "real" -> PyNum(row.real)
      [] e = "sq" -> PyNum((row.real - row.fore) * (row.real - row.fore))
      [] e = "diff" -> PyNum(row.real - row.fore)
      [] OTHER -> PyNum((row.real - row.fore) * (row.real - row.fore) * Abs(row.real - row.fore))

\* The statements body[i..] executed in env: [raised, env].
RECURSIVE ExecBody(_, _, _, _, _)
ExecBody(body, i, row, env, fallback) ==
    IF i > Len(body) THEN [raised |-> FALSE, env |-> env]
    ELSE LET s == body[i]
             v == EvalExpr(s.expr, row, env, fallback)
         IN IF s.cond = "realGtFore" /\ ~(row.real > row.fore)
            THEN ExecBody(body, i + 1, row, env, fallback)
            ELSE IF v.k = "unbound"
                 THEN [raised |-> TRUE, env |-> env]
                 ELSE ExecBody(body, i + 1, row, [env EXCEPT ![s.var] = v], fallback)

\* An entry of the preview's results list.
NumEntry(n) == [tag |-> "num", v |-> n]
NoResultEntry == [tag |-> "No Result", v |-> 0]
ErrorEntry == [tag |-> "Error", v |-> 0]

\* The loop without `result = None`: the result of an earlier row stays bound.
RECURSIVE PreviewLoop_noReset(_, _, _, _, _)
PreviewLoop_noReset(body, rows, i, env, out) ==
    IF i > Len(rows) THEN [results |-> out, env |-> env]
    ELSE LET r == ExecBody(body, 1, rows[i],
                           IF env.result.k = "unbound" THEN [env EXCEPT !.result = PyNone] ELSE env,
                           Unbound)
             entry == IF r.raised THEN ErrorEntry
                      ELSE IF r.env.result.k = "none" THEN NoResultEntry
                      ELSE NumEntry(r.env.result.n)
         IN PreviewLoop_noReset(body, rows, i + 1, r.env, Append(out, entry))

\* The preview script's for loop from row i on: the namespace is the module's
\* (global) one, result is reset to None for every row, the row logic runs
\* inside try/except Exception.
RECURSIVE PreviewLoop(_, _, _, _, _)
PreviewLoop(body, rows, i, env, out) ==
    IF i > Len(rows) THEN [results |-> out, env |-> env]
    ELSE LET r == ExecBody(body, 1, rows[i], [env EXCEPT !.result = PyNone], Unbound)
             entry == IF r.raised THEN ErrorEntry
                      ELSE IF r.env.result.k = "none" THEN NoResultEntry
                      ELSE NumEntry(r.env.result.n)
         IN PreviewLoop(body, rows, i + 1, r.env, Append(out, entry))

\* py.runPythonAsync(script) of runRowPreview: the script as a whole either
\* fails (it does not compile) or yields the results list.
PreviewScript(logic, rows, gTmp) ==
    IF ~logic.compiles
    THEN [kind |-> "throw", msg |-> "SyntaxError", results |-> <<>>, tmp |-> gTmp]
    ELSE LET r == PreviewLoop(logic.body, rows, 1, [result |-> Unbound, tmp |-> gTmp], <<>>)
         IN [kind |-> "ok", msg |-> "", results |-> r.results, tmp |-> r.env.tmp]

\* tmp is a local of _calculate_batch exactly when the row logic assigns it.
AssignsTmp(body) == \E i \in 1..Len(body) : body[i].var = "tmp"

\* _calculate_batch from row i on: the namespace is the function's locals,
\* which live across the iterations of the loop.
RECURSIVE CalculateBatch(_, _, _, _, _, _)
CalculateBatch(body, rows, i, env, out, fallback) ==
    IF i > Len(rows) THEN [raised |-> FALSE, results |-> out]
    ELSE LET r == ExecBody(body, 1, rows[i], env, fallback)
             \* if 'result' not in locals(): result = 0.0
             e2 == IF r.env.result.k = "unbound"
                   THEN [r.env EXCEPT !.result = PyNum(0)] ELSE r.env
         IN IF r.raised THEN [raised |-> TRUE, results |-> out]
            ELSE CalculateBatch(body, rows, i + 1, e2, Append(out, e2.result.n), fallback)

\* The rows part of the script generateBatchScript assembles.
BatchRows(logic, rows, gTmp) ==
    IF ~logic.compiles THEN [kind |-> "throw", msg |-> "SyntaxError", results |-> <<>>]
    ELSE LET r == CalculateBatch(logic.body, rows, 1, [result |-> Unbound, tmp |-> Unbound],
                                 <<>>, IF AssignsTmp(logic.body) THEN Unbound ELSE gTmp)
         IN IF r.raised THEN [kind |-> "throw", msg |-> "RowRuntimeError", results |-> <<>>]
            ELSE [kind |-> "ok", msg |-> "", results |-> r.results]

\* ------------------------------------------------------------------ numbers

\* A float of the model: NaN, a rational n/d in lowest terms (k = "q"), the
\* square root of one that is not a square (k = "sqrt"), or one minus such a
\* root (k = "1-sqrt"). Arithmetic is exact.
RECURSIVE GCD(_, _)
GCD(a, b) == IF b = 0 THEN a ELSE GCD(b, a % b)
Q(n, d) == LET g == GCD(Abs(n), d) IN [k |-> "q", n |-> n \div g, d |-> d \div g]
Num(n) == Q(n, 1)
NaN == [k |-> "nan", n |-> 0, d |-> 1]

Plus(x, y) == IF x.k = "nan" \/ y.k = "nan" THEN NaN ELSE Q(x.n * y.d + y.n * x.d, x.d * y.d)
Minus(x, y) == IF x.k = "nan" \/ y.k = "nan" THEN NaN ELSE Q(x.n * y.d - y.n * x.d, x.d * y.d)
Times(x, y) == IF x.k = "nan" \/ y.k = "nan" THEN NaN ELSE Q(x.n * y.n, x.d * y.d)
\* x < y, false when either is NaN
Lt(x, y) == x.k = "q" /\ y.k = "q" /\ x.n * y.d < y.n * x.d
AbsQ(x) == IF x.k = "q" THEN Q(Abs(x.n), x.d) ELSE x
\* x / y for a rational y other than 0
Over(x, y) ==
    LET yn == Abs(y.n)
        sg == IF y.n < 0 THEN -1 ELSE 1
    IN CASE x.k = "q" -> Q(sg * x.n * y.d, x.d * yn)
         [] x.k = "sqrt" -> LET r == Q(x.n * y.d * y.d, x.d * yn * yn)
                            IN [k |-> "sqrt", n |-> r.n, d |-> r.d]
         [] OTHER -> NaN
IsSquare(n) == \E r \in 0..n : r * r = n
Root(n) == CHOOSE r \in 0..n : r * r = n
\* the square root of a rational that is not negative, or of NaN
Sqrt(x) ==
    IF x.k = "nan" THEN NaN
    ELSE IF IsSquare(x.n) /\ IsSquare(x.d) THEN Q(Root(x.n), Root(x.d))
    ELSE [k |-> "sqrt", n |-> x.n, d |-> x.d]
\* 1 - x
OneMinus(x) ==
    CASE x.k = "q" -> Q(x.d - x.n, x.d)
      [] x.k = "sqrt" -> [k |-> "1-sqrt", n |-> x.n, d |-> x.d]
      [] OTHER -> NaN
\* x > 0, false for NaN
Gt0(x) ==
    CASE x.k = "q" -> x.n > 0
      [] x.k = "sqrt" -> TRUE
      [] x.k = "1-sqrt" -> x.n < x.d
      [] OTHER -> FALSE
\* x >= 0, false for NaN
Ge0(x) ==
    CASE x.k = "q" -> x.n >= 0
      [] x.k = "sqrt" -> TRUE
      [] x.k = "1-sqrt" -> x.n <= x.d
      [] OTHER -> FALSE

\* max(0, x) left out
PyMax0_noClamp(x) == x

\* Python: max(0, x) is x when x > 0 and the first argument otherwise, so 0
\* for NaN
PyMax0(x) == IF Gt0(x) THEN x ELSE Num(0)
\* Python: min(x, 1.0) is 1.0 when 1.0 < x and the first argument otherwise
PyMin1(x) == IF Lt(Num(1), x) THEN Num(1) ELSE x
\* Python: sum(xs)
RECURSIVE PySum(_)
PySum(xs) == IF xs = <<>> THEN Num(0) ELSE Plus(xs[1], PySum(Tail(xs)))
\* numpy: np.mean(xs), NaN (with a warning) for an empty list
NpMean(xs) == IF xs = <<>> THEN NaN ELSE Over(PySum(xs), Num(Len(xs)))

\* ------------------------------------------------------------- mathUtils.ts

RECURSIVE sum(_)
sum(arr) == IF arr = <<>> THEN Num(0) ELSE Plus(arr[1], sum(Tail(arr)))
mean(arr) == IF Len(arr) = 0 THEN Num(0) ELSE Over(sum(arr), Num(Len(arr)))
\* Math.pow(x, 2)
MathPow2(x) == Times(x, x)
\* rmse without Math.sqrt
rmse_noSqrt(real, fore) ==
    IF Len(real) # Len(fore) \/ Len(real) = 0 THEN Num(0)
    ELSE mean([i \in 1..Len(real) |-> MathPow2(Minus(real[i], fore[i]))])

rmse(real, fore) ==
    IF Len(real) # Len(fore) \/ Len(real) = 0 THEN Num(0)
    ELSE Sqrt(mean([i \in 1..Len(real) |-> MathPow2(Minus(real[i], fore[i]))]))

\* ------------------------------------------------ formulas.ts: batch scripts

\* ROW_TEMPLATES.Northeast, which is run by NortheastRow and not by ExecBody
NortheastTemplate == Logic(<<Stmt("always", "result", "northeast")>>)

\* The Northeast template on one row: the dead band is tested against
\* cap * 0.1.
NortheastRow(row, cap) ==
    LET fore_list == IF Len(row.forecasts) > 0 THEN row.forecasts ELSE <<row.fore>>
        mean_fore == NpMean([i \in 1..Len(fore_list) |-> Num(fore_list[i])])
        dead == Lt(Num(row.real), Q(cap, 10)) /\ Lt(mean_fore, Q(cap, 10))
    IN [exempt |-> dead,
        result |-> IF dead THEN Num(0)
                   ELSE IF mean_fore = Num(0) THEN Num(0)
                   ELSE PyMin1(AbsQ(Over(Minus(mean_fore, Num(row.real)), mean_fore)))]

\* getDefaultFormulaState
getDefaultFormulaState(region) ==
    IF region = "Northeast" THEN [rowLogic |-> NortheastTemplate, aggMethod |-> "mean"]
    ELSE IF region = "Shanxi" THEN [rowLogic |-> ShanxiTemplate, aggMethod |-> "rmse"]
    ELSE [rowLogic |-> GeneralTemplate, aggMethod |-> "rmse"]

\* rowLogic.includes('weight = abs(diff)'): of the row formulas of the model,
\* only the Shanxi template holds that text
HasWeightMarker(logic) == logic = ShanxiTemplate

\* generateBatchScript without the override for the Shanxi template
generateBatchScript_noOverride(logic, aggMethod, region) ==
    [logic |-> logic,
     agg |-> CASE aggMethod = "mean" -> "mean"
               [] aggMethod = "rmse" /\ region = "Shanxi" -> "shanxi"
               [] aggMethod = "rmse" -> "general"
               [] OTHER -> "zero"]

\* generateBatchScript: the script is known by the row logic it embeds and
\* the aggregation code chosen for it.
generateBatchScript(logic, aggMethod, region) ==
    [logic |-> logic,
     agg |-> CASE aggMethod = "mean" -> "mean"
               [] aggMethod = "rmse" /\ region = "Shanxi" /\ HasWeightMarker(logic) -> "weighted"
               [] aggMethod = "rmse" /\ region = "Shanxi" -> "shanxi"
               [] aggMethod = "rmse" -> "general"
               [] OTHER -> "zero"]

getFormulaDefaultCode(region) ==
    generateBatchScript(getDefaultFormulaState(region).rowLogic,
                        getDefaultFormulaState(region).aggMethod, region)

Thrown(msg) == [kind |-> "throw", msg |-> msg, v |-> NaN]
Returned(v) == [kind |-> "ok", msg |-> "", v |-> v]

\* result = max(0, 1 - math.sqrt(x) / cap): math.sqrt raises on a negative
\* number, the division on cap = 0.
RootOverCap(x, cap) ==
    IF x.k = "q" /\ x.n < 0 THEN Thrown("ValueError")
    ELSE IF cap = 0 THEN Thrown("ZeroDivisionError")
    ELSE Returned(PyMax0(OneMinus(Over(Sqrt(x), Num(cap)))))

\* aggregationCode run on row_results and the globals real, fore and cap
Aggregation(agg, row_results, rows, cap) ==
    CASE agg = "mean" -> Returned(PyMax0(OneMinus(NpMean(row_results))))
      [] agg = "shanxi" ->
            IF Len(row_results) > 0
            THEN RootOverCap(Over(PySum(row_results), Num(Len(row_results))), cap)
            ELSE Returned(Num(1))
      [] agg = "weighted" ->
            LET total_weight == PySum([i \in 1..Len(rows) |-> Num(Abs(rows[i].real - rows[i].fore))])
            IN IF total_weight = Num(0) THEN Returned(Num(1))
               ELSE RootOverCap(Over(PySum(row_results), total_weight), cap)
      [] agg = "general" -> RootOverCap(NpMean(row_results), cap)
      [] OTHER -> Returned(Num(0))

\* row_results = _calculate_batch(real, fore, _fore_list_arg, cap, threshold)
RowResults(logic, rows, cap, gTmp) ==
    IF logic = NortheastTemplate
    THEN [kind |-> "ok", msg |-> "",
          results |-> [i \in 1..Len(rows) |-> NortheastRow(rows[i], cap).result]]
    ELSE LET r == BatchRows(logic, rows, gTmp)
         IN [kind |-> r.kind, msg |-> r.msg,
             results |-> [i \in 1..Len(r.results) |-> Num(r.results[i])]]

\* py.runPythonAsync(code) of executeCustomFormula for a generated script;
\* gTmp is the binding of tmp in the globals of the instance.
RunBatchScript(code, rows, cap, gTmp) ==
    LET r == RowResults(code.logic, rows, cap, gTmp)
    IN IF r.kind = "throw" THEN Thrown(r.msg)
       ELSE Aggregation(code.agg, r.results, rows, cap)

\* const numResult = Number(result); if (isNaN(numResult)) return 0;
NumberOrZero(v) == IF v.k = "nan" THEN Num(0) ELSE v

\* executeCustomFormula on an instance that is loaded and not shared with a
\* call in flight: the accuracy it returns, or what it throws.
executeCustomFormula(code, rows, cap, threshold, gTmp) ==
    LET r == RunBatchScript(code, rows, cap, gTmp)
    IN IF r.kind = "throw" THEN r ELSE Returned(NumberOrZero(r.v))

\* rmse(real, fore) of the rows of a day
RmseOfRows(rows) ==
    rmse([i \in 1..Len(rows) |-> Num(rows[i].real)], [i \in 1..Len(rows) |-> Num(rows[i].fore)])

\* The DailyResult handleCalculate pushes for a day (date, accuracy and rmse)
DailyResult(date, accuracy, rmseOfDay) ==
    [date |-> date, accuracy |-> accuracy, rmse |-> rmseOfDay]

\* ------------------------------------------------------------ App.tsx: dates

\* A string is the sequence of its characters; a character is its place in the
\* collating order of '-' and the digits ('-' sorts before '0').
Dash == 0
Digit(d) == d + 1

\* String(n) for n >= 0
RECURSIVE DecimalString(_)
DecimalString(n) ==
    IF n < 10 THEN <<Digit(n)>> ELSE Append(DecimalString(n \div 10), Digit(n % 10))

\* String.prototype.padStart(2, '0')
PadStart2(str) == IF Len(str) < 2 THEN <<Digit(0)>> \o str ELSE str

\* new Date(timestamp) in local time. A timestamp of the model is a day
\* number; day 1 is 2023-09-30 and September has 30 days, so that the days
\* of the model lie on both sides of a change of month.
GetFullYear(ts) == 2023
GetMonth(ts) == 8 + (ts + 28) \div 30
GetDate(ts) == ((ts + 28) % 30) + 1

toLocalDate(ts) ==
    DecimalString(GetFullYear(ts)) \o <<Dash>>
        \o PadStart2(DecimalString(GetMonth(ts) + 1)) \o <<Dash>>
        \o PadStart2(DecimalString(GetDate(ts)))

\* a < b for strings, as the relational operators and Array.prototype.sort()
\* compare them: by code units, a proper prefix first.
RECURSIVE StrLess(_, _)
StrLess(a, b) ==
    IF Len(b) = 0 THEN FALSE
    ELSE IF Len(a) = 0 THEN TRUE
    ELSE IF a[1] # b[1] THEN a[1] < b[1]
    ELSE StrLess(Tail(a), Tail(b))

\* Object.keys(grouped) sorted the other way round
RECURSIVE SortStrings_descending(_)
SortStrings_descending(S) ==
    IF S = {} THEN <<>>
    ELSE LET m == CHOOSE x \in S : \A y \in S \ {x} : StrLess(y, x)
         IN <<m>> \o SortStrings_descending(S \ {m})

\* Object.keys(grouped).sort()
RECURSIVE SortStrings(_)
SortStrings(S) ==
    IF S = {} THEN <<>>
    ELSE LET m == CHOOSE x \in S : \A y \in S \ {x} : StrLess(x, y)
         IN <<m>> \o SortStrings(S \ {m})

\* A row of the file with one forecast column
Row(ts, real, fore) == [ts |-> ts, real |-> real, fore |-> fore, forecasts |-> <<fore>>]

\* handleCalculate, 1. Prepare Data: the rows of the date range
InRange(d, row) ==
    ~StrLess(toLocalDate(row.ts), d.start) /\ ~StrLess(d.end, toLocalDate(row.ts))

RECURSIVE RowsInRange(_, _)
RowsInRange(rows, d) ==
    IF rows = <<>> THEN <<>>
    ELSE (IF InRange(d, rows[1]) THEN <<rows[1]>> ELSE <<>>) \o RowsInRange(Tail(rows), d)

ActiveData(d) == RowsInRange(d.rows, d)

\* rawRows.filter(r => toLocalDate(r.timestamp) === date)
RECURSIVE RowsOfDate(_, _)
RowsOfDate(rows, date) ==
    IF rows = <<>> THEN <<>>
    ELSE (IF toLocalDate(rows[1].ts) = date THEN <<rows[1]>> ELSE <<>>)
             \o RowsOfDate(Tail(rows), date)

\* handleCalculate, 2. Group by Date
GroupedKeys(d) == {toLocalDate(ActiveData(d)[i].ts) : i \in 1..Len(ActiveData(d))}
Grouped(d, date) == RowsOfDate(ActiveData(d), date)

\* editorSampleData: the rows of the first date in range, null if there is none
HasSample(d) == \E i \in 1..Len(d.rows) : InRange(d, d.rows[i])
SampleDate(d) ==
    LET i == CHOOSE j \in 1..Len(d.rows) :
                 InRange(d, d.rows[j]) /\ \A k \in 1..(j - 1) : ~InRange(d, d.rows[k])
    IN toLocalDate(d.rows[i].ts)
SampleRows(d) == RowsOfDate(d.rows, SampleDate(d))

\* the preview's `limit`
PreviewLimit == 10
PreviewInputs(d) ==
    LET rows == SampleRows(d)
    IN SubSeq(rows, 1, IF Len(rows) < PreviewLimit THEN Len(rows) ELSE PreviewLimit)

\* The uploaded files of the model, rows in file order, and the date range:
\* two days in range, the later one first, and a day out of range; and a
\* file with no row in range.
TwoDaysFile ==
    [rows |-> <<Row(2, 0, 1), Row(1, 2, 1), Row(2, 1, 1), Row(3, 2, 1)>>,
     start |-> toLocalDate(1), end |-> toLocalDate(2)]
NoDataFile == [rows |-> <<Row(3, 2, 1)>>, start |-> toLocalDate(1), end |-> toLocalDate(2)]
Datasets == {TwoDaysFile, NoDataFile}

\* What the application derives from the uploaded file, per file: the memo
\* editorSampleData of App, and activeData, grouped and dates of handleCalculate.
editorSampleData ==
    [d \in Datasets |-> [some |-> HasSample(d),
                         rows |-> IF HasSample(d) THEN PreviewInputs(d) ELSE <<>>]]
activeData == [d \in Datasets |-> ActiveData(d)]
grouped == [d \in Datasets |-> [date \in GroupedKeys(d) |-> Grouped(d, date)]]
dates == [d \in Datasets |-> SortStrings(GroupedKeys(d))]

\* ------------------------------------------------- formulas.ts: the sandbox

Insts == 1..(MaxInst + 1)

\* The callers of initPyodide: the preload effect of App, the preview
\* executions (numbered as their timers fire) and the calculation run.
PreloadCaller == 0
PreviewCallers == 1..(MaxPreviews + 1)
BatchCaller == MaxPreviews + 2
Callers == 0..(MaxPreviews + 2)

NoInit == [st |-> "none", inst |-> 0]

\* The names executeCustomFormula and the preview script bind in py.globals.
BindingNames == {"real", "fore", "fore_list", "cap", "threshold"}
ProxyNames == {"real_proxy", "fore_proxy", "fore_list_proxy"}
Names == BindingNames \cup ProxyNames \cup {"result"}
NoGlobals == [n \in Names |-> "-"]

Bind(g, py, names, who) == [g EXCEPT ![py] = [n \in Names |-> IF n \in names THEN who ELSE @[n]]]

\* useState<Region>('Shanxi') of App; the editor's aggMethod for it
InitialRegion == "Shanxi"
EditorAggMethod == getDefaultFormulaState(InitialRegion).aggMethod
\* params.cap of useState
DefaultCap == 100

\* executeCustomFormula, finally: the names are deleted from the globals of
\* pyodideInstance
Cleanup(g) ==
    IF pyodideInstance = 0 THEN g
    ELSE Bind(g, pyodideInstance, BindingNames \cup ProxyNames, "-")

\* the names of a call still bound in the globals of the instance it ran on
Left(g, py, names) == {n \in names : g[py][n] # "-"}

\* executeCustomFormula from the return of initPyodide to its first await:
\* the globals are set on py, the proxies are converted (import numpy first)
\* and result is initialised; when that throws, catch and finally run.
CallBody(g, rn, py, pk) ==
    IF pk[py] # "loaded"
    THEN LET g1 == Cleanup(Bind(g, py, ProxyNames \cup {"cap", "threshold"}, "batch"))
         IN [g |-> g1, run |-> [rn EXCEPT !.py = py], st |-> "none", threw |-> TRUE,
             left |-> Left(g1, py, BindingNames \cup ProxyNames)]
    ELSE [g |-> Bind(g, py, BindingNames \cup {"result"}, "batch"),
          run |-> [rn EXCEPT !.py = py, !.pc = "exec"], st |-> "none", threw |-> FALSE,
          left |-> {}]

\* executeCustomFormula from its start: initPyodide returns at once, throws
\* at once, or calls loadPyodide and waits.
CallStart(g, rn, pk) ==
    IF pyodideInstance # 0 THEN CallBody(g, rn, pyodideInstance, pk)
    ELSE IF ~hostLoaded
         THEN [g |-> g, run |-> rn, st |-> "none", threw |-> TRUE, left |-> {}]
         ELSE [g |-> g, run |-> [rn EXCEPT !.pc = "init"], st |-> "loadPyodide",
               threw |-> FALSE, left |-> {}]

\* The formulas the user types in the editor.
DivideLogic == Logic(<<Stmt("always", "result", "quot")>>)
EditorFormulas == {ShanxiTemplate, DivideLogic, SyntaxErrorLogic, EmptyLogic}

\* Per file, day and script the editor can set: what the script gives on the
\* rows of the day, and the rmse of the day.
EditorScripts == {generateBatchScript(l, EditorAggMethod, InitialRegion) : l \in EditorFormulas}
dayOutcome ==
    [d \in Datasets |-> [date \in GroupedKeys(d) |-> [code \in EditorScripts |->
        RunBatchScript(code, grouped[d][date], DefaultCap, Unbound)]]]
dailyRmse == [d \in Datasets |-> [date \in GroupedKeys(d) |-> RmseOfRows(grouped[d][date])]]

\* The script of executeCustomFormula run on the globals of py: it reads the
\* lists real and fore, cap and threshold, and fore_list when it is bound.
BatchScript(code, d, date, g) ==
    IF ~code.logic.compiles THEN Thrown("SyntaxError")
    ELSE IF g["real"] = "-" \/ g["fore"] = "-" \/ g["cap"] = "-" \/ g["threshold"] = "-"
    THEN Thrown("NameError")
    ELSE IF g["real"] # "batch" \/ g["fore"] # "batch" \/ g["fore_list"] = "preview"
    THEN Thrown("TypeError")
    ELSE dayOutcome[d][date][code]

\* The script without try/except around the row logic: a row that raises
\* ends the script.
RunPreviewScript_noTry(logic, rows, numpy) ==
    LET r == PreviewScript(logic, rows, Unbound)
    IN IF r.kind = "ok" /\ numpy # "loaded"
       THEN [kind |-> "throw", msg |-> "ModuleNotFoundError", results |-> <<>>]
       ELSE IF r.kind = "ok" /\ \E i \in 1..Len(r.results) : r.results[i] = ErrorEntry
       THEN [kind |-> "throw", msg |-> "RowRuntimeError", results |-> <<>>]
       ELSE [kind |-> r.kind, msg |-> r.msg, results |-> r.results]

\* runRowPreview's py.runPythonAsync(script): the script is compiled, imports
\* numpy and runs the loop over the rows.
RunPreviewScript(logic, rows, numpy) ==
    LET r == PreviewScript(logic, rows, Unbound)
    IN IF r.kind = "ok" /\ numpy # "loaded"
       THEN [kind |-> "throw", msg |-> "ModuleNotFoundError", results |-> <<>>]
       ELSE [kind |-> r.kind, msg |-> r.msg, results |-> r.results]

\* ------------------------------------------------------------ initial state

NoOut == [kind |-> "none", msg |-> "", results |-> <<>>]
NoPreview == [pc |-> "none", logic |-> EmptyLogic, py |-> 0, alive |-> FALSE, stale |-> FALSE]
NoTimer == [set |-> FALSE, logic |-> EmptyLogic]
IdleRun == [pc |-> "idle", dates |-> <<>>, code |-> generateBatchScript(EmptyLogic, "custom", InitialRegion),
            idx |-> 0, py |-> 0, daily |-> <<>>, end |-> "none"]
NoScript == [pc |-> "none", logic |-> EmptyLogic, rows |-> <<>>, out |-> NoOut]

\* The application once App is mounted: the preload effect has called
\* initPyodide, the region effect has set the default script.
AppInit(h, d, w) ==
    /\ wide = w
    /\ hostLoaded = h
    /\ pyodideInstance = 0
    /\ created = 0
    /\ pkg = [i \in Insts |-> "none"]
    /\ init = [c \in Callers |->
                 IF c = PreloadCaller /\ h THEN [st |-> "loadPyodide", inst |-> 0] ELSE NoInit]
    /\ globals = [i \in Insts |-> NoGlobals]
    /\ data = d
    /\ step = 1
    /\ customFormula = getFormulaDefaultCode(InitialRegion)
    /\ isCalculating = FALSE
    /\ results = <<>>
    /\ alert = "none"
    /\ run = IdleRun
    /\ rowLogic = EmptyLogic
    /\ timer = NoTimer
    /\ started = 0
    /\ pv = [k \in PreviewCallers |-> NoPreview]
    /\ previewResults = <<>>
    /\ previewError = ""
    /\ isRunning = FALSE
    /\ callLog = <<>>
    /\ batchLeft = {}
    /\ previewLeft = {}
    /\ applied = [seq |-> 0, stale |-> FALSE]
    /\ previewOut = [kind |-> "none", msg |-> ""]

Init ==
    /\ \E h \in BOOLEAN, d \in Datasets : AppInit(h, d, FALSE)
    /\ sc = NoScript

WideInit ==
    /\ \E h \in BOOLEAN, d \in Datasets : AppInit(h, d, TRUE)
    /\ sc = NoScript

\* --------------------------------------------- FormulaEditor.tsx: the preview

InFlight(k) == pv[k].pc \in {"init", "exec"}

\* The preview effect for the row logic f: the cleanup of the previous run
\* of the effect clears its timer, then a new timer is set unless sampleData
\* is null or the row logic is empty. The previews in flight are from then on
\* superseded by a newer request.
Schedules(f) == editorSampleData[data].some /\ f # EmptyLogic

\* The effect without its cleanup: a timer that is pending stays pending.
PreviewEffect_noCleanup(f, now) ==
    /\ timer' = IF timer.set THEN timer
                ELSE IF Schedules(f) THEN [set |-> TRUE, logic |-> f] ELSE NoTimer
    /\ pv' = now

PreviewEffect(f, now) ==
    IF Schedules(f)
    THEN /\ timer' = [set |-> TRUE, logic |-> f]
         /\ pv' = [k \in PreviewCallers |->
                     IF InFlight(k) THEN [now[k] EXCEPT !.stale = TRUE] ELSE now[k]]
    ELSE /\ timer' = NoTimer
         /\ pv' = now

\* FormulaEditor is unmounted: React drops the state updates its pending
\* callbacks make from then on.
Unmounted == [k \in PreviewCallers |-> IF InFlight(k) THEN [pv[k] EXCEPT !.alive = FALSE] ELSE pv[k]]

\* setRowLogic by the textarea, the variable buttons, the AI assist or reset
\* (as long as a preview execution may still start)
Edit(f) ==
    /\ step = 2
    /\ started < PreviewBudget
    /\ f # rowLogic
    /\ rowLogic' = f
    /\ PreviewEffect(f, pv)
    /\ UNCHANGED <<sandboxVars, appVars, started, previewResults, previewError,
                   isRunning, obsVars, wide, sc>>

\* setStep(2): FormulaEditor is mounted with fresh state, its region effect
\* loads the default row logic of the region (as long as a preview execution
\* may still start).
GoStep2 ==
    /\ step \in {1, 3}
    /\ started < PreviewBudget
    /\ step' = 2
    /\ rowLogic' = ShanxiTemplate
    /\ PreviewEffect(ShanxiTemplate, pv)
    /\ previewResults' = <<>>
    /\ previewError' = ""
    /\ isRunning' = FALSE
    /\ UNCHANGED <<sandboxVars, data, customFormula, isCalculating, results, alert, run,
                   started, obsVars, wide, sc>>

\* setStep(1): FormulaEditor is unmounted, the effect's cleanup clears the timer
GoStep1 ==
    /\ step = 2
    /\ step' = 1
    /\ timer' = NoTimer
    /\ pv' = Unmounted
    /\ UNCHANGED <<sandboxVars, data, customFormula, isCalculating, results, alert, run,
                   rowLogic, started, previewResults, previewError, isRunning,
                   obsVars, wide, sc>>


\* runRowPreview of execution k throws msg: the effect's catch and finally
PreviewFails(k, rec, msg) ==
    /\ pv' = [pv EXCEPT ![k] = NoPreview]
    /\ previewLeft' = {}
    /\ previewOut' = [kind |-> "throw", msg |-> msg]
    /\ IF rec.alive
       THEN /\ previewError' = msg
            /\ previewResults' = <<>>
            /\ isRunning' = FALSE
            /\ applied' = [seq |-> k, stale |-> rec.stale]
       ELSE UNCHANGED <<previewError, previewResults, isRunning, applied>>

\* runRowPreview of execution k returns out: setPreviewResults, setCode, finally
PreviewSucceeds(k, out) ==
    /\ pv' = [pv EXCEPT ![k] = NoPreview]
    /\ previewOut' = [kind |-> "ok", msg |-> ""]
    /\ previewLeft' = {n \in BindingNames : globals'[pv[k].py][n] = "preview"}
    /\ customFormula' = generateBatchScript(pv[k].logic, EditorAggMethod, InitialRegion)
    /\ applied' = [seq |-> k, stale |-> pv[k].stale]
    /\ IF pv[k].alive
       THEN /\ previewResults' = out.results
            /\ isRunning' = FALSE
       ELSE UNCHANGED <<previewResults, isRunning>>
    /\ UNCHANGED previewError

\* The timer of the preview effect fires: the callback runs up to the first
\* await of runRowPreview that has to wait.
TimerFires ==
    /\ timer.set
    /\ started < PreviewBudget
    /\ started' = started + 1
    /\ LET k == started + 1
           rec == [NoPreview EXCEPT !.logic = timer.logic, !.alive = TRUE]
       IN /\ timer' = NoTimer
          /\ IF pyodideInstance # 0
             THEN /\ pv' = [pv EXCEPT ![k] = [rec EXCEPT !.pc = "exec", !.py = pyodideInstance]]
                  /\ isRunning' = TRUE
                  /\ previewError' = ""
                  /\ UNCHANGED <<init, previewResults, previewLeft, applied, previewOut>>
             ELSE IF ~hostLoaded
             THEN /\ PreviewFails(k, rec, "Pyodide script not loaded")
                  /\ UNCHANGED init
             ELSE /\ pv' = [pv EXCEPT ![k] = [rec EXCEPT !.pc = "init"]]
                  /\ init' = [init EXCEPT ![k] = [st |-> "loadPyodide", inst |-> 0]]
                  /\ isRunning' = TRUE
                  /\ previewError' = ""
                  /\ UNCHANGED <<previewResults, previewLeft, applied, previewOut>>
    /\ UNCHANGED <<hostLoaded, pyodideInstance, created, pkg, globals, appVars, rowLogic,
                   callLog, batchLeft, wide, sc>>

\* py.runPythonAsync(script) of execution k: the script runs in the sandbox
\* and runRowPreview resumes with its outcome.
PreviewRun(k) ==
    /\ pv[k].pc = "exec"
    /\ LET py == pv[k].py
           out == RunPreviewScript(pv[k].logic, editorSampleData[data].rows, pkg[py])
       IN IF out.kind = "ok"
          THEN /\ globals' = Bind(globals, py, BindingNames \cup {"result"}, "preview")
               /\ PreviewSucceeds(k, out)
          ELSE /\ globals' = globals
               /\ PreviewFails(k, pv[k], out.msg)
               /\ UNCHANGED customFormula
    /\ UNCHANGED <<hostLoaded, pyodideInstance, created, pkg, init, data, step, isCalculating,
                   results, alert, run, rowLogic, timer, started, callLog, batchLeft, wide, sc>>

\* -------------------------------------------- App.tsx: the calculation run

CallEv(date) == [ev |-> "call", date |-> date]
DoneEv(date) == [ev |-> "done", date |-> date]
CurrentDate(rn) == rn.dates[rn.idx]

\* The run without the finally of its callback: isCalculating stays set
\* when a call throws.
RunGoes_noFinally(b, log, left) ==
    /\ globals' = b.g
    /\ IF b.threw
       THEN /\ run' = [IdleRun EXCEPT !.end = "error"]
            /\ alert' = "error"
            /\ callLog' = Append(log, DoneEv(CurrentDate(b.run)))
            /\ batchLeft' = left \cup b.left
            /\ UNCHANGED isCalculating
       ELSE /\ run' = b.run
            /\ callLog' = log
            /\ batchLeft' = left
            /\ UNCHANGED <<alert, isCalculating>>

\* The run after executeCustomFormula was started for a day (b, the result of
\* CallStart or CallBody): it waits for the sandbox, or the call has thrown
\* and the catch and finally of the run's callback end the run.
RunGoes(b, log, left) ==
    /\ globals' = b.g
    /\ IF b.threw
       THEN /\ run' = [IdleRun EXCEPT !.end = "error"]
            /\ alert' = "error"
            /\ isCalculating' = FALSE
            /\ callLog' = Append(log, DoneEv(CurrentDate(b.run)))
            /\ batchLeft' = left \cup b.left
       ELSE /\ run' = b.run
            /\ callLog' = log
            /\ batchLeft' = left
            /\ UNCHANGED <<alert, isCalculating>>

\* handleCalculate without setIsCalculating(true)
handleCalculate_notCalculating ==
    /\ step = 2
    /\ ~isCalculating
    /\ UNCHANGED isCalculating
    /\ IF activeData[data] = <<>>
       THEN /\ alert' = "nodata"
            /\ UNCHANGED <<run, callLog>>
       ELSE /\ run' = [IdleRun EXCEPT !.pc = "timer", !.code = customFormula,
                                      !.dates = dates[data]]
            /\ callLog' = <<>>
            /\ alert' = "none"
    /\ UNCHANGED <<sandboxVars, data, step, customFormula, results, editorVars,
                   batchLeft, previewLeft, applied, previewOut, wide, sc>>

\* handleCalculate without setIsCalculating(false) before its early return
handleCalculate_staysCalculating ==
    /\ step = 2
    /\ ~isCalculating
    /\ isCalculating' = TRUE
    /\ IF activeData[data] = <<>>
       THEN /\ alert' = "nodata"
            /\ UNCHANGED <<run, callLog>>
       ELSE /\ run' = [IdleRun EXCEPT !.pc = "timer", !.code = customFormula,
                                      !.dates = dates[data]]
            /\ callLog' = <<>>
            /\ alert' = "none"
    /\ UNCHANGED <<sandboxVars, data, step, customFormula, results, editorVars,
                   batchLeft, previewLeft, applied, previewOut, wide, sc>>

\* The button of step 2, disabled while isCalculating
handleCalculate ==
    /\ step = 2
    /\ ~isCalculating
    /\ IF activeData[data] = <<>>
       THEN /\ alert' = "nodata"
            /\ UNCHANGED <<isCalculating, run, callLog>>
       ELSE /\ isCalculating' = TRUE
            /\ run' = [IdleRun EXCEPT !.pc = "timer", !.code = customFormula,
                                      !.dates = dates[data]]
            /\ callLog' = <<>>
            /\ alert' = "none"
    /\ UNCHANGED <<sandboxVars, data, step, customFormula, results, editorVars,
                   batchLeft, previewLeft, applied, previewOut, wide, sc>>

\* The setTimeout(..., 100) of handleCalculate fires: the first day's call
RunTimerFires ==
    /\ run.pc = "timer"
    /\ LET rn == [run EXCEPT !.idx = 1]
           b == CallStart(globals, rn, pkg)
       IN /\ RunGoes(b, <<CallEv(CurrentDate(rn))>>, batchLeft)
          /\ init' = [init EXCEPT ![BatchCaller] = [st |-> b.st, inst |-> 0]]
    /\ UNCHANGED <<hostLoaded, pyodideInstance, created, pkg, data, step, customFormula,
                   results, editorVars, previewLeft, applied, previewOut, wide, sc>>

\* py.runPythonAsync(code) of the current day: the script runs in the
\* sandbox and executeCustomFormula resumes with its outcome; after finally,
\* the run's loop goes on with the next day, publishes the results or aborts.
RunDay ==
    /\ run.pc = "exec"
    /\ \E out \in {BatchScript(run.code, data, CurrentDate(run), globals[run.py])} :
       LET g0 == IF out.kind = "ok" THEN Bind(globals, run.py, {"result"}, "batch")
                 ELSE globals
           g1 == Cleanup(g0)
           left == Left(g1, run.py, BindingNames \cup ProxyNames)
           log == Append(callLog, DoneEv(CurrentDate(run)))
           daily == Append(run.daily, DailyResult(CurrentDate(run), NumberOrZero(out.v),
                                                  dailyRmse[data][CurrentDate(run)]))
           next == [run EXCEPT !.idx = run.idx + 1, !.daily = daily]
       IN IF out.kind = "throw"
          THEN /\ globals' = g1
               /\ run' = [IdleRun EXCEPT !.end = "error"]
               /\ alert' = "error"
               /\ isCalculating' = FALSE
               /\ callLog' = log
               /\ batchLeft' = left
               /\ UNCHANGED <<results, step, timer, pv>>
          ELSE IF run.idx < Len(run.dates)
          THEN /\ RunGoes(CallStart(g1, next, pkg), Append(log, CallEv(CurrentDate(next))), left)
               /\ UNCHANGED <<results, step, timer, pv>>
          ELSE /\ globals' = g1
               /\ run' = [IdleRun EXCEPT !.end = "ok"]
               /\ results' = daily
               /\ step' = 3
               /\ timer' = NoTimer
               /\ pv' = IF step = 2 THEN Unmounted ELSE pv
               /\ isCalculating' = FALSE
               /\ callLog' = log
               /\ batchLeft' = left
               /\ UNCHANGED alert
    /\ UNCHANGED <<hostLoaded, pyodideInstance, created, pkg, init, data, customFormula,
                   rowLogic, started, previewResults, previewError, isRunning,
                   previewLeft, applied, previewOut, wide, sc>>

\* ------------------------------------------------- formulas.ts: initPyodide

\* initPyodide returns py to caller c, which resumes.
InitReturned(c, py, pk) ==
    IF c = PreloadCaller THEN UNCHANGED <<globals, appVars, editorVars, obsVars>>
    ELSE IF c = BatchCaller
    THEN /\ RunGoes(CallBody(globals, run, py, pk), callLog, batchLeft)
         /\ UNCHANGED <<data, step, customFormula, results, editorVars, previewLeft, applied, previewOut>>
    ELSE /\ pv' = [pv EXCEPT ![c].pc = "exec", ![c].py = py]
         /\ UNCHANGED <<globals, appVars, rowLogic, timer, started, previewResults,
                        previewError, isRunning, obsVars>>

\* initPyodide throws msg to caller c, whose catch and finally run.
InitThrew(c, msg) ==
    IF c = PreloadCaller THEN UNCHANGED <<globals, appVars, editorVars, obsVars>>
    ELSE IF c = BatchCaller
    THEN /\ RunGoes([g |-> Cleanup(globals), run |-> run, st |-> "none", threw |-> TRUE,
                     left |-> {}], callLog, batchLeft)
         /\ UNCHANGED <<data, step, customFormula, results, editorVars, previewLeft, applied, previewOut>>
    ELSE /\ PreviewFails(c, pv[c], msg)
         /\ UNCHANGED <<globals, appVars, rowLogic, timer, started, callLog, batchLeft>>

\* window.loadPyodide(...) of caller c resolves: the instance is assigned to
\* pyodideInstance and loadPackage("numpy") is called on it.
LoadPyodideResolves(c) ==
    /\ init[c].st = "loadPyodide"
    /\ created < InstBudget
    /\ created' = created + 1
    /\ pyodideInstance' = created + 1
    /\ pkg' = [pkg EXCEPT ![created + 1] = "loading"]
    /\ init' = [init EXCEPT ![c] = [st |-> "loadPackage", inst |-> created + 1]]
    /\ UNCHANGED <<hostLoaded, globals, appVars, editorVars, obsVars, wide, sc>>

LoadPyodideRejects(c) ==
    /\ init[c].st = "loadPyodide"
    /\ init' = [init EXCEPT ![c] = NoInit]
    /\ InitThrew(c, "LoadError")
    /\ UNCHANGED <<hostLoaded, pyodideInstance, created, pkg, wide, sc>>

\* loadPackage("numpy") of caller c resolves: initPyodide returns pyodideInstance
LoadPackageResolves(c) ==
    /\ init[c].st = "loadPackage"
    /\ pkg' = [pkg EXCEPT ![init[c].inst] = "loaded"]
    /\ init' = [init EXCEPT ![c] = NoInit]
    /\ InitReturned(c, pyodideInstance, pkg')
    /\ UNCHANGED <<hostLoaded, pyodideInstance, created, wide, sc>>

LoadPackageRejects(c) ==
    /\ init[c].st = "loadPackage"
    /\ pkg' = [pkg EXCEPT ![init[c].inst] = "failed"]
    /\ init' = [init EXCEPT ![c] = NoInit]
    /\ InitThrew(c, "PackageError")
    /\ UNCHANGED <<hostLoaded, pyodideInstance, created, wide, sc>>

\* ------------------------------------------------------------ specification

Next ==
    \/ \E f \in EditorFormulas : Edit(f)
    \/ GoStep2
    \/ GoStep1
    \/ TimerFires
    \/ \E k \in PreviewCallers : PreviewRun(k)
    \/ handleCalculate
    \/ RunTimerFires
    \/ RunDay
    \/ \E c \in Callers : LoadPyodideResolves(c)
    \/ \E c \in Callers : LoadPyodideRejects(c)
    \/ \E c \in Callers : LoadPackageResolves(c)
    \/ \E c \in Callers : LoadPackageRejects(c)

Spec == Init /\ [][Next]_vars

\* The steps of a calculation run that the browser takes by itself: the 100 ms
\* timer fires, and every promise the run awaits (loadPyodide, loadPackage,
\* runPythonAsync) settles.
RunProgress ==
    \/ RunTimerFires
    \/ RunDay
    \/ LoadPyodideResolves(BatchCaller)
    \/ LoadPyodideRejects(BatchCaller)
    \/ LoadPackageResolves(BatchCaller)
    \/ LoadPackageRejects(BatchCaller)

\* The application when timers fire and sandbox calls terminate.
LiveSpec == Init /\ [][Next]_vars /\ WF_vars(RunProgress)

\* The same application with one more instance and one more preview.
WideSpec == WideInit /\ [][Next]_vars

\* ------------------------------------------------- the two generated scripts

\* The row formulas and sample rows of ScriptSpec: every list of at most
\* MaxStmts statements and every list of at most MaxRows rows.
SeqsUpTo(S, n) == UNION {[1..k -> S] : k \in 0..n}
ScriptStmts == {Stmt(c, v, e) : c \in Conds, v \in Vars, e \in {"quot", "tmp", "real"}}
ScriptLogics == {Logic(b) : b \in SeqsUpTo(ScriptStmts, MaxStmts)} \cup {SyntaxErrorLogic}
ScriptRows == {Row(1, 0, 1), Row(1, 2, 1)}

ScriptInit ==
    /\ AppInit(FALSE, NoDataFile, FALSE)
    /\ \E l \in ScriptLogics, rs \in SeqsUpTo(ScriptRows, MaxRows) :
           sc = [NoScript EXCEPT !.logic = l, !.rows = rs]

\* the script of runRowPreview run on the rows
PreviewOfRows ==
    /\ sc.pc = "none"
    /\ LET r == PreviewScript(sc.logic, sc.rows, Unbound)
       IN sc' = [sc EXCEPT !.pc = "preview",
                           !.out = [kind |-> r.kind, msg |-> r.msg, results |-> r.results]]
    /\ UNCHANGED <<sandboxVars, appVars, editorVars, obsVars, wide>>

\* the rows part of the script of generateBatchScript run on the rows
BatchOfRows ==
    /\ sc.pc = "none"
    /\ sc' = [sc EXCEPT !.pc = "batch", !.out = BatchRows(sc.logic, sc.rows, Unbound)]
    /\ UNCHANGED <<sandboxVars, appVars, editorVars, obsVars, wide>>

ScriptNext == PreviewOfRows \/ BatchOfRows

ScriptSpec == ScriptInit /\ [][ScriptNext]_vars

\* ------------------------------------------------- executeCustomFormula alone

\* A sample of a day: real, the forecasts of the forecast columns and their
\* average (avgFore); the forecasts of the model have an integer average.
Sample(real, forecasts) ==
    [ts |-> 1, real |-> real,
     fore |-> mean([i \in 1..Len(forecasts) |-> Num(forecasts[i])]).n,
     forecasts |-> forecasts]
FormulaSamples ==
    {Sample(0, <<0>>), Sample(0, <<1>>), Sample(2, <<0>>), Sample(3, <<1, 3>>)}
\* capacities, 0 included; thresholds 0.03 and 0.10, the defaults of the regions
Caps == {0, 1, 20}
Thresholds == {Q(3, 100), Q(10, 100)}
AggMethods == {"mean", "sum", "rmse", "custom"}
Regions == {"Shanxi", "Northeast", "Northwest"}
\* row formulas: the templates, one that reads a name it never binds, one
\* that binds it, one that raises on real = 0, one with negative results
ReadsTmpLogic == Logic(<<Stmt("always", "result", "tmp")>>)
SetsTmpLogic == Logic(<<Stmt("always", "tmp", "real"), Stmt("always", "result", "tmp")>>)
DiffLogic == Logic(<<Stmt("always", "result", "diff")>>)
FormulaLogics ==
    {ShanxiTemplate, GeneralTemplate, NortheastTemplate, ReadsTmpLogic, DivideLogic, DiffLogic}
PreviewedLogics == {ShanxiTemplate, SetsTmpLogic}

NoDaily == [kind |-> "none", msg |-> "", accuracy |-> NaN, rmse |-> NaN]

\* The inputs of the calls of FormulaSpec, and per input what
\* executeCustomFormula gives and the rmse of the DailyResult.
DayRows == SeqsUpTo(FormulaSamples, MaxDayRows)
Scripts == {generateBatchScript(l, m, rg) : l \in FormulaLogics, m \in AggMethods, rg \in Regions}
TmpBindings == {Unbound} \cup {PyNum(s.real) : s \in FormulaSamples}
callOutcome ==
    [in \in Scripts \X DayRows \X Caps \X Thresholds \X TmpBindings |->
        executeCustomFormula(in[1], in[2], in[3], in[4], in[5])]
dayRmse == [rs \in DayRows |-> RmseOfRows(rs)]

\* The inputs of the calls. The instance they run on is loaded and nothing has
\* run on it; the variables of the application play no part.
FormulaInit ==
    /\ AppInit(FALSE, NoDataFile, FALSE)
    /\ \E rs \in SeqsUpTo(FormulaSamples, MaxDayRows), c \in Caps, th \in Thresholds :
           sc = [pc |-> "idle", rows |-> rs, cap |-> c, threshold |-> th, tmp |-> Unbound,
                 logic |-> EmptyLogic, aggMethod |-> "custom", region |-> InitialRegion,
                 out |-> NoDaily]

\* runRowPreview(logic, ...) on the rows runs to its end: the names the row
\* logic has bound stay in the globals of the instance.
FormulaPreview(logic) ==
    /\ sc.pc = "idle"
    /\ sc.rows # <<>>
    /\ sc' = [sc EXCEPT !.pc = "previewed",
                        !.tmp = PreviewScript(logic, sc.rows, sc.tmp).tmp]
    /\ UNCHANGED <<sandboxVars, appVars, editorVars, obsVars, wide>>

\* One day of handleCalculate's loop: executeCustomFormula on the script
\* generated for (logic, aggMethod, region) and the DailyResult of the day.
FormulaExecute(logic, aggMethod, region) ==
    /\ sc.pc \in {"idle", "previewed"}
    /\ \E r \in {callOutcome[<<generateBatchScript(logic, aggMethod, region),
                                 sc.rows, sc.cap, sc.threshold, sc.tmp>>]} :
           sc' = [sc EXCEPT !.pc = "executed", !.logic = logic, !.aggMethod = aggMethod,
                            !.region = region,
                            !.out = [kind |-> r.kind, msg |-> r.msg,
                                     accuracy |-> r.v, rmse |-> dayRmse[sc.rows]]]
    /\ UNCHANGED <<sandboxVars, appVars, editorVars, obsVars, wide>>

FormulaNext ==
    \/ \E l \in PreviewedLogics : FormulaPreview(l)
    \/ \E l \in FormulaLogics, m \in AggMethods, rg \in Regions : FormulaExecute(l, m, rg)

FormulaSpec == FormulaInit /\ [][FormulaNext]_vars

\* ------------------------------------------- App.tsx: the step 2 configuration

\* params of useState: threshold 0.03, ignoreDeadBand true
DefaultThreshold == Q(3, 100)
DefaultParams == [cap |-> DefaultCap, threshold |-> DefaultThreshold, ignoreDeadBand |-> TRUE]

\* positions of the threshold slider (0 to 0.15): the two regional defaults
\* and the maximum
SliderThresholds == Thresholds \cup {Q(15, 100)}
\* Controls: the slider is enabled for these regions only
showThreshold(region) == region = "Northwest" \/ region = "Northeast"

\* The region effect that would reset the threshold of every other region
RegionThreshold_resets(region, threshold) ==
    IF region = "Northeast" THEN Q(10, 100) ELSE Q(3, 100)

\* The region effect of App on params.threshold
RegionThreshold(region, threshold) ==
    IF region = "Northeast" THEN Q(10, 100)
    ELSE IF region = "Northwest" THEN Q(3, 100)
    ELSE threshold

\* What the callback of a run would evaluate a day with if it read the
\* state of the latest render
DayInputs_current(s) ==
    [code |-> s.customFormula, cap |-> s.params.cap, threshold |-> s.params.threshold]

\* What the setTimeout callback of handleCalculate evaluates a day with:
\* customFormula, params.cap and params.threshold of the closure, the render
\* in which the button was clicked
DayInputs(s) == s.closure

NoClosure == [code |-> generateBatchScript(EmptyLogic, "custom", InitialRegion),
              cap |-> DefaultCap, threshold |-> DefaultThreshold]

\* App at step 2 after the file TwoDaysFile was uploaded: the region effect
\* has run for the initial region.
ConfigInit ==
    /\ AppInit(FALSE, TwoDaysFile, FALSE)
    /\ sc = [pc |-> "idle", region |-> InitialRegion, params |-> DefaultParams,
             customFormula |-> getFormulaDefaultCode(InitialRegion),
             closure |-> NoClosure, evaluated |-> <<>>]

\* The region select of Controls and the region effect of App it triggers
setRegion(r) ==
    /\ r # sc.region
    /\ sc' = [sc EXCEPT !.region = r,
                        !.params.threshold = RegionThreshold(r, @),
                        !.customFormula = getFormulaDefaultCode(r)]
    /\ UNCHANGED <<sandboxVars, appVars, editorVars, obsVars, wide>>

\* The capacity input of Controls
setParamsCap(c) ==
    /\ c # sc.params.cap
    /\ sc' = [sc EXCEPT !.params.cap = c]
    /\ UNCHANGED <<sandboxVars, appVars, editorVars, obsVars, wide>>

\* The threshold slider of Controls
setParamsThreshold(t) ==
    /\ showThreshold(sc.region)
    /\ t # sc.params.threshold
    /\ sc' = [sc EXCEPT !.params.threshold = t]
    /\ UNCHANGED <<sandboxVars, appVars, editorVars, obsVars, wide>>

\* setCode of the editor: a preview of the row logic l has succeeded
setCode(l) ==
    /\ sc.customFormula # generateBatchScript(l, getDefaultFormulaState(sc.region).aggMethod, sc.region)
    /\ sc' = [sc EXCEPT !.customFormula =
                   generateBatchScript(l, getDefaultFormulaState(sc.region).aggMethod, sc.region)]
    /\ UNCHANGED <<sandboxVars, appVars, editorVars, obsVars, wide>>

\* handleCalculate: the callback of the run closes over the state of this
\* render
ConfigCalculate ==
    /\ sc.pc = "idle"
    /\ sc' = [sc EXCEPT !.pc = "running", !.evaluated = <<>>,
                        !.closure = [code |-> sc.customFormula, cap |-> sc.params.cap,
                                     threshold |-> sc.params.threshold]]
    /\ UNCHANGED <<sandboxVars, appVars, editorVars, obsVars, wide>>

\* One iteration of the run's loop: executeCustomFormula for the next day
ConfigDay ==
    /\ sc.pc = "running"
    /\ sc' = [sc EXCEPT !.evaluated = Append(@, DayInputs(sc)),
                        !.pc = IF Len(sc.evaluated) + 1 = Len(dates[data]) THEN "idle" ELSE @]
    /\ UNCHANGED <<sandboxVars, appVars, editorVars, obsVars, wide>>

ConfigNext ==
    \/ \E r \in Regions : setRegion(r)
    \/ \E c \in Caps : setParamsCap(c)
    \/ \E t \in SliderThresholds : setParamsThreshold(t)
    \/ \E l \in {DivideLogic} : setCode(l)
    \/ ConfigCalculate
    \/ ConfigDay

ConfigSpec == ConfigInit /\ [][ConfigNext]_vars

\* ------------------------------------------------- formulas.ts: the storage

\* localStorage.getItem(STORAGE_KEY) is null
NoItem == [present |-> FALSE, members |-> <<>>]
\* A JSON text of an object: its members in the order they are written
JsonText(members) == [present |-> TRUE, members |-> members]
\* data[region] of an object that has no such key
Undefined == [rowLogic |-> EmptyLogic, aggMethod |-> "undefined"]
\* what loadFormulaFromStorage returns for a falsy data[region]
Null == [rowLogic |-> EmptyLogic, aggMethod |-> "null"]

\* An object is its keys in insertion order and the value of each key.
KeySet(obj) == {obj.keys[i] : i \in 1..Len(obj.keys)}
Get(obj, key) == IF key \in KeySet(obj) THEN obj.val[key] ELSE Undefined
\* obj[key] = v: a new key is added last, a key that exists keeps its place
Put(obj, key, v) ==
    [keys |-> IF key \in KeySet(obj) THEN obj.keys ELSE Append(obj.keys, key),
     val |-> [k \in KeySet(obj) \cup {key} |-> IF k = key THEN v ELSE obj.val[k]]]
\* delete obj[key]
Delete(obj, key) ==
    [keys |-> SelectSeq(obj.keys, LAMBDA k : k # key),
     val |-> [k \in KeySet(obj) \ {key} |-> obj.val[k]]]

\* JSON.parse(localStorage.getItem(STORAGE_KEY) || '{}')
JSONParse(item) ==
    [keys |-> [i \in 1..Len(item.members) |-> item.members[i].key],
     val |-> [k \in {item.members[i].key : i \in 1..Len(item.members)} |->
                 LET i == CHOOSE j \in 1..Len(item.members) : item.members[j].key = k
                 IN [rowLogic |-> item.members[i].rowLogic,
                     aggMethod |-> item.members[i].aggMethod]]]
\* JSON.stringify(data)
JSONStringify(obj) ==
    JsonText([i \in 1..Len(obj.keys) |->
                 [key |-> obj.keys[i], rowLogic |-> obj.val[obj.keys[i]].rowLogic,
                  aggMethod |-> obj.val[obj.keys[i]].aggMethod]])

\* A row formula whose text is longer than what localStorage may hold for
\* the origin
OverQuotaLogic == Logic(<<Stmt("always", "result", "real"), Stmt("always", "result", "real")>>)
\* localStorage.setItem(STORAGE_KEY, text) throws QuotaExceededError
ExceedsQuota(text) == \E i \in 1..Len(text.members) : text.members[i].rowLogic = OverQuotaLogic

\* loadFormulaFromStorage(region) on the item of localStorage
loadFormulaFromStorage(item, region) ==
    LET obj == JSONParse(item)
    IN IF Get(obj, region) = Undefined THEN Null ELSE Get(obj, region)

\* The row formulas and aggregation methods that are saved
StoredLogics == {ShanxiTemplate, DivideLogic, OverQuotaLogic}
StoredAggMethods == {"mean", "rmse"}

\* localStorage is empty. history holds, per region, what the last save of
\* the region was called with, Null after a clear of the region.
StorageInit ==
    /\ AppInit(FALSE, NoDataFile, FALSE)
    /\ sc = [item |-> NoItem, history |-> [r \in Regions |-> Null], last |-> "none"]

\* saveFormulaToStorage(region, l, m): the catch swallows what setItem throws
saveFormulaToStorage(region, l, m) ==
    /\ \E text \in {JSONStringify(Put(JSONParse(sc.item), region,
                                       [rowLogic |-> l, aggMethod |-> m]))} :
           sc' = [item |-> IF ExceedsQuota(text) THEN sc.item ELSE text,
                  history |-> [sc.history EXCEPT ![region] = [rowLogic |-> l, aggMethod |-> m]],
                  last |-> IF ExceedsQuota(text) THEN "save failed" ELSE "saved"]
    /\ UNCHANGED <<sandboxVars, appVars, editorVars, obsVars, wide>>

\* clearFormulaFromStorage(region)
clearFormulaFromStorage(region) ==
    /\ sc' = [item |-> JSONStringify(Delete(JSONParse(sc.item), region)),
              history |-> [sc.history EXCEPT ![region] = Null],
              last |-> "cleared"]
    /\ UNCHANGED <<sandboxVars, appVars, editorVars, obsVars, wide>>

StorageNext ==
    \/ \E r \in Regions, l \in StoredLogics, m \in StoredAggMethods : saveFormulaToStorage(r, l, m)
    \/ \E r \in Regions : clearFormulaFromStorage(r)

StorageSpec == StorageInit /\ [][StorageNext]_vars

\* ------------------------------- formulas.ts: the text of generateBatchScript

\* A text is the sequence of its pieces: a blank (sp), a line break (nl), the
\* words import, numpy, as and np, a semicolon (semi), a comment up to the
\* end of its line (cmt) and any other code (stmt). The replacement adds
\* "# " (hash) and " # Pre-imported globally" (pre), the indentation adds
\* eight blanks (ind).
IsWs(c) == c \in {"sp", "nl"}
\* the first place at or after i that holds no white space
WsEnd(t, i) ==
    CHOOSE j \in i..(Len(t) + 1) :
        /\ j = Len(t) + 1 \/ ~IsWs(t[j])
        /\ \A k \in i..(j - 1) : IsWs(t[k])
\* ^ and $ under the flag m
AtBol(t, i) == i = 1 \/ t[i - 1] = "nl"
AtEol(t, i) == i = Len(t) + 1 \/ t[i] = "nl"
Has(t, i, c) == i <= Len(t) /\ t[i] = c
\* the last end of line among the places lo..hi, 0 if there is none
LastEol(t, lo, hi) ==
    IF \E b \in lo..hi : AtEol(t, b)
    THEN CHOOSE b \in lo..hi : AtEol(t, b) /\ \A c \in (b + 1)..hi : ~AtEol(t, c)
    ELSE 0
\* \s*;?\s*$ from place i, greedy: where the match ends, 0 if it fails
TailEnd(t, i) ==
    LET a == WsEnd(t, i)
        withSemi == IF Has(t, a, "semi") THEN LastEol(t, a + 1, WsEnd(t, a + 1)) ELSE 0
    IN IF withSemi # 0 THEN withSemi ELSE LastEol(t, i, a)
\* (?:\s+as\s+np) from place i: the place after np, 0 if it fails
AsNpEnd(t, i) ==
    LET a == WsEnd(t, i)
        b == WsEnd(t, a + 1)
    IN IF a > i /\ Has(t, a, "as") /\ b > a + 1 /\ Has(t, b, "np") THEN b + 1 ELSE 0
\* /^(\s*)(import\s+numpy(?:\s+as\s+np)?\s*;?\s*$)/m tried at place i: where
\* the match ends, 0 if there is no match at i
MatchEnd(t, i) ==
    LET q == WsEnd(t, i)
        r == WsEnd(t, q + 1)
        g == AsNpEnd(t, r + 1)
        withAs == IF g # 0 THEN TailEnd(t, g) ELSE 0
    IN IF ~AtBol(t, i) \/ ~Has(t, q, "import") \/ r = q + 1 \/ ~Has(t, r, "numpy") THEN 0
       ELSE IF withAs # 0 THEN withAs ELSE TailEnd(t, r + 1)

\* rowLogic.replace(regex, '$1# $2 # Pre-imported globally') from place i on
RECURSIVE Replace(_, _)
Replace(t, i) ==
    IF i > Len(t) THEN <<>>
    ELSE LET e == MatchEnd(t, i)
             q == WsEnd(t, i)
         IN IF e # 0
            THEN SubSeq(t, i, q - 1) \o <<"hash">> \o SubSeq(t, q, e - 1) \o <<"pre">>
                     \o Replace(t, e)
            ELSE <<t[i]>> \o Replace(t, i + 1)

cleanRowLogic(t) == Replace(t, 1)

\* text.split('\n')
RECURSIVE Split(_)
Split(t) ==
    IF \A i \in 1..Len(t) : t[i] # "nl" THEN <<t>>
    ELSE LET i == CHOOSE j \in 1..Len(t) : t[j] = "nl" /\ \A k \in 1..(j - 1) : t[k] # "nl"
         IN <<SubSeq(t, 1, i - 1)>> \o Split(SubSeq(t, i + 1, Len(t)))
\* lines.join('\n')
RECURSIVE Join(_)
Join(lines) ==
    IF Len(lines) = 1 THEN lines[1]
    ELSE lines[1] \o <<"nl">> \o Join(Tail(lines))

\* the user's row logic in the function body, indented twice
indentedLogic(t) ==
    Join([i \in 1..Len(Split(cleanRowLogic(t))) |-> <<"ind">> \o Split(cleanRowLogic(t))[i]])

\* The lines of the row formulas of TextSpec: the import in its two forms,
\* indented, with a semicolon and with a comment after it; a blank line;
\* another statement, plain and indented.
ImportNumpy == <<"import", "sp", "numpy">>
ImportNumpyAsNp == <<"import", "sp", "numpy", "sp", "as", "sp", "np">>
FormulaLines ==
    {ImportNumpy, ImportNumpyAsNp, <<"sp">> \o ImportNumpyAsNp, ImportNumpyAsNp \o <<"semi">>,
     ImportNumpyAsNp \o <<"sp", "cmt">>, <<>>, <<"stmt">>, <<"sp", "stmt">>}
FormulaTexts == {Join(ls) : ls \in UNION {[1..k -> FormulaLines] : k \in 1..MaxLines}}

TextInit ==
    /\ AppInit(FALSE, NoDataFile, FALSE)
    /\ \E t \in FormulaTexts : sc = [pc |-> "none", text |-> t, out |-> <<>>]

\* generateBatchScript on the row formula: the lines between the markers
\* User Row Logic Start and End of the script
AssembleRowLogic ==
    /\ sc.pc = "none"
    /\ \E o \in {indentedLogic(sc.text)} : sc' = [sc EXCEPT !.pc = "assembled", !.out = o]
    /\ UNCHANGED <<sandboxVars, appVars, editorVars, obsVars, wide>>

TextSpec == TextInit /\ [][AssembleRowLogic]_vars

\* ------------------------------------------------------------------- claims

\* the sandbox calls in flight: started and not yet completed
CallsInFlight ==
    Cardinality({k \in PreviewCallers : InFlight(k)})
        + (IF run.pc \in {"init", "exec"} THEN 1 ELSE 0)

\* C1: at no time are two sandbox calls (executeCustomFormula, runRowPreview)
\* in flight at once.
C1_OneCallInFlight == CallsInFlight <= 1

\* The days with a row in range, in calendar order, as date strings.
DaysInRange(d) == {d.rows[i].ts : i \in {j \in 1..Len(d.rows) : InRange(d, d.rows[j])}}
RECURSIVE Ascending(_)
Ascending(S) ==
    IF S = {} THEN <<>>
    ELSE LET m == CHOOSE x \in S : \A y \in S : x <= y
         IN <<m>> \o Ascending(S \ {m})
ExpectedDates ==
    [d \in Datasets |->
        [i \in 1..Cardinality(DaysInRange(d)) |-> toLocalDate(Ascending(DaysInRange(d))[i])]]
IsCall(e) == e.ev = "call"
RunCalls == SelectSeq(callLog, IsCall)

\* C2 (as amended): within one calculation run executeCustomFormula is
\* invoked at most once for each day in range, for the days in ascending
\* calendar order without a gap, each call starting only after the previous
\* one has completed; a run that ends without an error has invoked it
\* exactly once for every day in range.
C2_SequentialAscending ==
    /\ Len(RunCalls) <= Len(ExpectedDates[data])
    /\ \A i \in 1..Len(RunCalls) : RunCalls[i].date = ExpectedDates[data][i]
    /\ \A i \in 1..Len(callLog) :
           IF i % 2 = 1 THEN callLog[i].ev = "call"
           ELSE callLog[i].ev = "done" /\ callLog[i].date = callLog[i - 1].date
    /\ run.end = "ok" => Len(RunCalls) = Len(ExpectedDates[data])

\* a run over two days has ended without an error
C2_Witness == run.end = "ok" /\ Len(RunCalls) = 2 /\ Len(callLog) = 4

\* C2 as stated: a run that has ended has invoked executeCustomFormula
\* exactly once for each day in range.
C2_EveryDayOnce ==
    (run.pc = "idle" /\ run.end # "none") => Len(RunCalls) = Len(ExpectedDates[data])

\* C3: when an executeCustomFormula call completes, none of its names is
\* bound any more in the globals of the instance it ran on.
C3_BatchNamesDeleted == batchLeft = {}

\* C4: when a runRowPreview call completes, the names real, fore, fore_list,
\* cap and threshold it bound are deleted from the globals.
C4_PreviewNamesDeleted == previewLeft = {}

\* C5: loadPyodide resolves to an instance at most once, so that every
\* initPyodide call returns the same instance.
C5_OneInstance == created <= 1

\* C6: an instance whose numpy package failed to load is not cached in
\* pyodideInstance.
C6_NoInstanceAfterFailure == pyodideInstance # 0 => pkg[pyodideInstance] # "failed"

\* what makes runRowPreview throw: initPyodide fails, the script does not
\* compile, or its import of numpy fails
ThrowCauses ==
    {"Pyodide script not loaded", "LoadError", "PackageError", "SyntaxError",
     "ModuleNotFoundError"}

RowRun(body, rows, j) ==
    LET before == PreviewLoop(body, SubSeq(rows, 1, j - 1), 1,
                              [result |-> Unbound, tmp |-> Unbound], <<>>).env
    IN ExecBody(body, 1, rows[j], [before EXCEPT !.result = PyNone], Unbound)

RaisingRows == {j \in 1..Len(sc.rows) : RowRun(sc.logic.body, sc.rows, j).raised}

BindsResult(body, row) ==
    \E i \in 1..Len(body) :
        body[i].var = "result" /\ (body[i].cond = "always" \/ row.real > row.fore)

\* C9: for every row on which the row logic does not bind result, the batch
\* script appends 0.0.
C9_UnboundIsZero ==
    (sc.pc = "batch" /\ sc.out.kind = "ok") =>
        \A i \in 1..Len(sc.rows) :
            ~BindsResult(sc.logic.body, sc.rows[i]) => sc.out.results[i] = 0

\* C10: the outcome of a preview execution is applied only if no newer
\* preview request has been triggered since the execution started.
C10_OnlyLatestApplied == ~applied.stale

\* C11 (as amended): the only preview timer that can be pending is the one
\* of the last change, for a mounted editor with sample data and a row logic
\* that is not empty; the timer of an earlier change never fires.
C11_PendingTimerIsLatest ==
    timer.set => /\ step = 2
                 /\ timer.logic = rowLogic
                 /\ rowLogic # EmptyLogic
                 /\ editorSampleData[data].some

\* a change followed the mount before its timer fired, and the one preview
\* execution that started is for the changed row logic
C11_Witness ==
    /\ started = 1
    /\ InFlight(1)
    /\ pv[1].logic = DivideLogic
    /\ rowLogic = DivideLogic
    /\ ~timer.set

\* C11 as stated: every change of the row logic of a mounted editor with
\* sample data leaves a preview pending for it.
C11_EveryBurstPreviews ==
    [][(rowLogic' # rowLogic /\ step' = 2 /\ editorSampleData[data].some)
           => (timer'.set /\ timer'.logic = rowLogic')]_vars

\* C12: when the sandbox call of a day fails the run ends there: results
\* and the wizard step are left as they were, the error is alerted and
\* isCalculating is reset so that the button starts a later run; no call
\* follows until then, and results change only when a run ends without error.
C12_FailedRunAborts ==
    [][/\ (run'.end = "error" /\ run.end # "error")
           => /\ results' = results
              /\ step' = step
              /\ run'.pc = "idle"
              /\ alert' = "error"
              /\ ~isCalculating'
       /\ (run.end = "error" /\ run'.end = "error")
           => (callLog' = callLog /\ results' = results)
       /\ results' # results => run'.end = "ok"]_vars

\* the call of the first of two days has failed and the run is over
C12_Witness ==
    /\ run.end = "error"
    /\ Len(dates[data]) = 2
    /\ callLog = <<CallEv(dates[data][1]), DoneEv(dates[data][1])>>
    /\ step = 2
    /\ ~isCalculating

\* C13: with no row in the date range a run ends before any sandbox call:
\* executeCustomFormula is never invoked, results stay as they were and
\* isCalculating is false again.
C13_NoDataNoCall ==
    activeData[data] = <<>> =>
        /\ callLog = <<>>
        /\ run = IdleRun
        /\ results = <<>>
        /\ ~isCalculating

\* the button was clicked with no row in range
C13_Witness == activeData[data] = <<>> /\ alert = "nodata" /\ ~isCalculating

\* C14: a run sets isCalculating and waits for its timer before its first
\* sandbox call, and isCalculating is true whenever a call of the run is in
\* flight.
C14_CalculatingWhileInFlight ==
    /\ [](run.pc # "idle" => isCalculating)
    /\ [](run.pc = "timer" => callLog = <<>>)
    /\ [][run.pc = "idle" => run'.pc \in {"idle", "timer"}]_vars

\* a call of the run is in flight
C14_Witness == run.pc = "exec" /\ isCalculating /\ callLog # <<>>

\* C15: a call of executeCustomFormula has the outcome (the accuracy, or the
\* failure) that the same script, samples, cap and threshold have on an
\* instance on which nothing has run before, whatever was executed before
\* the call.
C15_SameOutcomeOnEveryCall ==
    sc.pc = "executed" =>
        LET fresh == executeCustomFormula(generateBatchScript(sc.logic, sc.aggMethod, sc.region),
                                          sc.rows, sc.cap, sc.threshold, Unbound)
        IN sc.out.kind = fresh.kind /\ sc.out.accuracy = fresh.v

\* C16: with the Northeast template and cap > 0, a sample is in the dead band
\* exactly when real and the mean of fore_list are both strictly below
\* threshold * cap.
C16_DeadBandUsesThreshold ==
    (sc.pc = "executed" /\ sc.logic = NortheastTemplate /\ sc.cap > 0) =>
        \A i \in 1..Len(sc.rows) :
            LET row == sc.rows[i]
                limit == Times(sc.threshold, Num(sc.cap))
                mean_fore == mean([j \in 1..Len(row.forecasts) |-> Num(row.forecasts[j])])
            IN NortheastRow(row, sc.cap).exempt <=> (Lt(Num(row.real), limit) /\ Lt(mean_fore, limit))

\* max(0, 1 - sqrt(x) / cap)
ClampedRoot(x, cap) == PyMax0(OneMinus(Over(Sqrt(x), Num(cap))))

C18_AccuracyFromRmse ==
    (/\ sc.pc = "executed" /\ sc.logic = GeneralTemplate /\ sc.aggMethod = "rmse"
     /\ sc.cap > 0 /\ sc.rows # <<>>) =>
        /\ sc.out.kind = "ok"
        /\ sc.out.accuracy = PyMax0(OneMinus(Over(sc.out.rmse, Num(sc.cap))))

\* samples (2, 0) and (3, 2), cap 20: the mean squared error is 5 / 2
C18_Witness ==
    /\ sc.pc = "executed" /\ sc.logic = GeneralTemplate /\ sc.aggMethod = "rmse"
    /\ sc.cap = 20 /\ Len(sc.rows) = 2
    /\ sc.out.rmse = Sqrt(Q(5, 2))
    /\ sc.out.accuracy = OneMinus(Over(Sqrt(Q(5, 2)), Num(20)))

\* C19: the accuracy a generated script returns when it completes is a
\* number that is at least 0, never negative and never NaN.
C19_AccuracyNotNegative ==
    (sc.pc = "executed" /\ sc.out.kind = "ok") => Ge0(sc.out.accuracy)

\* the clamp acts: mean aggregation of the single row result 8
C19_Witness ==
    /\ sc.pc = "executed" /\ sc.out.kind = "ok"
    /\ sc.aggMethod = "mean" /\ sc.logic = ShanxiTemplate
    /\ Len(sc.rows) = 1 /\ sc.rows[1].real = 2 /\ sc.rows[1].fore = 0
    /\ sc.out.accuracy = Num(0)

\* C20: a generated script run on a day without samples, with cap > 0,
\* completes and returns the default of its method: 1 for mean and rmse, 0
\* (the value they give for every input) for sum and custom.
C20_EmptyDayDefault ==
    (sc.pc = "executed" /\ sc.rows = <<>> /\ sc.cap > 0) =>
        /\ sc.out.kind = "ok"
        /\ sc.out.accuracy = IF sc.aggMethod \in {"mean", "rmse"} THEN Num(1) ELSE Num(0)

\* C27: a caller that holds the instance initPyodide returned to it holds an
\* instance whose numpy package has finished loading.
C27_ReturnedAfterNumpy ==
    /\ \A k \in PreviewCallers : pv[k].pc = "exec" => pkg[pv[k].py] = "loaded"
    /\ run.pc = "exec" => pkg[run.py] = "loaded"

\* C29: when timers fire and every sandbox call terminates, a run that has
\* set isCalculating sets it back to false.
C29_CalculatingEnds == isCalculating ~> ~isCalculating

\* a run has ended well and the button is enabled again
C29_Witness == run.end = "ok" /\ ~isCalculating /\ results # <<>> /\ step = 3

\* C30: while the editor is mounted, isRunning is true whenever a preview
\* execution started by that editor is in flight.
C30_RunningWhileInFlight ==
    step = 2 => ((\E k \in PreviewCallers : InFlight(k) /\ pv[k].alive) => isRunning)

\* What a run of the script code over the file d publishes when no call of it
\* throws: one DailyResult per day in range, in calendar order.
ExpectedResults(d, code) ==
    [i \in 1..Len(ExpectedDates[d]) |->
        DailyResult(ExpectedDates[d][i],
                    NumberOrZero(dayOutcome[d][ExpectedDates[d][i]][code].v),
                    dailyRmse[d][ExpectedDates[d][i]])]

\* C23: the step that ends a calculation run without an error sets results
\* to exactly one DailyResult for each local calendar date with a sample in
\* range, in ascending date order and without a duplicate date, computed by
\* this run; whatever results held before is gone.
C23_ResultsOfThisRun ==
    [][ run.pc = "exec" /\ run'.end = "ok" =>
            /\ results' = ExpectedResults(data, run.code)
            /\ \A i, j \in 1..Len(results') : i < j => results'[i].date # results'[j].date
      ]_vars

\* a run has ended without an error and published the two days of the file,
\* the earlier date first
C23_Witness ==
    /\ run.end = "ok"
    /\ results = ExpectedResults(data, getFormulaDefaultCode(InitialRegion))
    /\ Len(results) = 2
    /\ StrLess(results[1].date, results[2].date)

\* C26: the step that triggers a calculation run hands the run the script
\* generateBatchScript assembles from the row formula, aggregation method
\* and region the editor shows at that moment.
C26_RunsWhatEditorShows ==
    [][ run.pc = "idle" /\ run'.pc = "timer" =>
            run'.code = generateBatchScript(rowLogic, EditorAggMethod, InitialRegion)
      ]_vars

\* C24: when the preview and the batch script both run the row logic on the
\* same rows without raising on row i, the entry the preview shows for row i
\* is the number the batch script collects for row i.
C24_PreviewEqualsBatch ==
    (sc.pc = "preview" /\ sc.out.kind = "ok") =>
        LET batch == BatchRows(sc.logic, sc.rows, Unbound)
        IN batch.kind = "ok" =>
               \A i \in 1..Len(sc.rows) :
                   sc.out.results[i].tag # "Error" =>
                       sc.out.results[i] = NumEntry(batch.results[i])

\* C25: a region change sets the threshold to 0.10 for Northeast and to 0.03
\* for Northwest and leaves it as it was for every other region, leaves cap
\* and ignoreDeadBand as they were, and sets the script to execute to the
\* default script of the new region.
C25_RegionChange ==
    [][ sc'.region # sc.region =>
            /\ sc'.params.threshold =
                   (CASE sc'.region = "Northeast" -> Q(10, 100)
                      [] sc'.region = "Northwest" -> Q(3, 100)
                      [] OTHER -> sc.params.threshold)
            /\ sc'.params.cap = sc.params.cap
            /\ sc'.params.ignoreDeadBand = sc.params.ignoreDeadBand
            /\ sc'.customFormula =
                   generateBatchScript(getDefaultFormulaState(sc'.region).rowLogic,
                                       getDefaultFormulaState(sc'.region).aggMethod, sc'.region)
      ]_vars

\* the region was changed to one that is neither Northeast nor Northwest
\* with a threshold and a cap that are not the initial ones
C25_Witness ==
    /\ sc.region = "Shanxi"
    /\ sc.params.threshold = Q(15, 100)
    /\ sc.params.cap # DefaultCap
    /\ sc.customFormula = getFormulaDefaultCode("Shanxi")

\* C28: every day of a run is evaluated with the script, cap and threshold
\* that were current when the run was triggered, whatever is edited while
\* the run is in progress.
C28_RunInputsFixed ==
    [][ /\ (sc.pc = "idle" /\ sc'.pc = "running") =>
               sc'.closure = [code |-> sc.customFormula, cap |-> sc.params.cap,
                              threshold |-> sc.params.threshold]
        /\ (sc.pc = "running" /\ sc'.pc = "running") => sc'.closure = sc.closure
        /\ \A i \in 1..Len(sc'.evaluated) : sc'.evaluated[i] = sc'.closure
      ]_vars

\* a run in progress has evaluated a day, and the script, the cap and the
\* threshold of the application are no longer those of the run
C28_Witness ==
    /\ sc.pc = "running"
    /\ Len(sc.evaluated) = 1
    /\ sc.customFormula # sc.closure.code
    /\ sc.params.cap # sc.closure.cap
    /\ sc.params.threshold # sc.closure.threshold

\* C22: after any sequence of saves and clears, loadFormulaFromStorage(r)
\* returns the rowLogic and aggMethod of the most recent save of region r
\* that no clear of r has followed, and null when there is none.
C22_LoadsLastSave ==
    \A r \in Regions : loadFormulaFromStorage(sc.item, r) = sc.history[r]

\* the words of a line, without blanks, a closing semicolon and a comment
Words(line) == SelectSeq(line, LAMBDA c : c \notin {"sp", "ind", "semi", "cmt"})
\* the line is the statement import numpy or import numpy as np
ImportsNumpy(line) == Words(line) \in {<<"import", "numpy">>, <<"import", "numpy", "as", "np">>}
\* the line is a comment
CommentedOut(line) ==
    LET w == SelectSeq(line, LAMBDA c : c \notin {"sp", "ind"})
    IN w # <<>> /\ w[1] = "hash"

\* C21: in the script, every line of the row formula that imports numpy
\* (import numpy, import numpy as np, at any indentation) is a comment, and
\* every other line is the line of the row formula behind the indentation.
C21_ImportsCommentedOut ==
    sc.pc = "assembled" =>
        /\ Len(Split(sc.out)) = Len(Split(sc.text))
        /\ \A i \in 1..Len(Split(sc.text)) :
               IF ImportsNumpy(Split(sc.text)[i])
               THEN CommentedOut(Split(sc.out)[i])
               ELSE Split(sc.out)[i] = <<"ind">> \o Split(sc.text)[i]

====
